---- MODULE Spec2Model ----
(***************************************************************************)
(* A model of the tetrust game engine (src/main.rs): the Board, the Piece  *)
(* geometry, the PieceBag, the Game operations and the event loop of       *)
(* Game::play fed by the ticker thread and the input thread.               *)
(*                                                                         *)
(* Rows and columns keep the source's 0-based indices: a shape is a        *)
(* function [0..n-1 -> [0..n-1 -> {0,1}]], the board's cells a function    *)
(* [0..BOARD_HEIGHT-1 -> [0..BOARD_WIDTH-1 -> colour or None]].            *)
(***************************************************************************)
EXTENDS Integers, Sequences, FiniteSets, TLC

\* ---------------------------------------------------------------- constants
BOARD_WIDTH == 10
BOARD_HEIGHT == 20
HIDDEN_ROWS == 2
BAG_SIZE == 7

\* ------------------------------------------------------------------- bounds
\* Number of events the two producer threads send in one behaviour.
MaxEvents == 2
\* Number of events that may wait in the channel at once.
MaxQueue == 2
\* Number of orderings thread_rng's shuffle is drawn from (out of 7!).
MaxShuffles == 3
\* Number of pop calls applied to a stand-alone PieceBag.
MaxPops == 7

\* -------------------------------------------------------------------- types
\* Option<Color>::None in a cell of the board.
None == "None"

\* Option<Piece>: the empty sequence for None, a one-element sequence for Some.
NoPiece == << >>

Some(piece) == << piece >>

Point(px, py) == [x |-> px, y |-> py]

\* A literal matrix written as a tuple of rows, re-indexed from 0.
Matrix(rows) ==
    [r \in 0..(Len(rows) - 1) |-> [c \in 0..(Len(rows) - 1) |-> rows[r + 1][c + 1]]]

\* Vec::len of a shape: its domain is 0..len-1.
ShapeLen(shape) == Cardinality(DOMAIN shape)

\* ------------------------------------------------------------------- pieces
new_o == [color |-> "Cyan", shape |-> Matrix(<< <<1, 1>>,
                                                <<1, 1>> >>)]

new_l == [color |-> "Orange", shape |-> Matrix(<< <<0, 0, 1>>,
                                                  <<1, 1, 1>>,
                                                  <<0, 0, 0>> >>)]

new_j == [color |-> "Blue", shape |-> Matrix(<< <<1, 0, 0>>,
                                                <<1, 1, 1>>,
                                                <<0, 0, 0>> >>)]

new_t == [color |-> "Purple", shape |-> Matrix(<< <<0, 1, 0>>,
                                                  <<1, 1, 1>>,
                                                  <<0, 0, 0>> >>)]

new_s == [color |-> "Green", shape |-> Matrix(<< <<0, 1, 1>>,
                                                 <<1, 1, 0>>,
                                                 <<0, 0, 0>> >>)]

new_z == [color |-> "Red", shape |-> Matrix(<< <<1, 1, 0>>,
                                               <<0, 1, 1>>,
                                               <<0, 0, 0>> >>)]

new_i == [color |-> "Cyan", shape |-> Matrix(<< <<0, 0, 0, 0>>,
                                                <<1, 1, 1, 1>>,
                                                <<0, 0, 0, 0>>,
                                                <<0, 0, 0, 0>> >>)]

\* shape[row][col] = v
SetCell(shape, row, col, v) ==
    [shape EXCEPT ![row] = [shape[row] EXCEPT ![col] = v]]

\* A variant of RotateStep without the temporary: the last assignment reads
\* shape[row][col] after the first has overwritten it.
RotateStep_no_temp(shape, direction, row, col) ==
    LET size == ShapeLen(shape)
    IN  IF direction = "Left"
        THEN LET s1 == SetCell(shape, row, col, shape[col][size - row - 1])
                 s2 == SetCell(s1, col, size - row - 1, s1[size - row - 1][size - col - 1])
                 s3 == SetCell(s2, size - row - 1, size - col - 1, s2[size - col - 1][row])
             IN  SetCell(s3, size - col - 1, row, s3[row][col])
        ELSE LET s1 == SetCell(shape, row, col, shape[size - col - 1][row])
                 s2 == SetCell(s1, size - col - 1, row, s1[size - row - 1][size - col - 1])
                 s3 == SetCell(s2, size - row - 1, size - col - 1, s2[col][size - row - 1])
             IN  SetCell(s3, col, size - row - 1, s3[row][col])

\* The body of rotate's inner loop: one 4-way swap, the assignments in order.
RotateStep(shape, direction, row, col) ==
    LET size == ShapeLen(shape)
        t == shape[row][col]
    IN  IF direction = "Left"
        THEN LET s1 == SetCell(shape, row, col, shape[col][size - row - 1])
                 s2 == SetCell(s1, col, size - row - 1, s1[size - row - 1][size - col - 1])
                 s3 == SetCell(s2, size - row - 1, size - col - 1, s2[size - col - 1][row])
             IN  SetCell(s3, size - col - 1, row, t)
        ELSE LET s1 == SetCell(shape, row, col, shape[size - col - 1][row])
                 s2 == SetCell(s1, size - col - 1, row, s1[size - row - 1][size - col - 1])
                 s3 == SetCell(s2, size - row - 1, size - col - 1, s2[col][size - row - 1])
             IN  SetCell(s3, col, size - row - 1, t)

\* rotate's two loops from (row, col) on: row in 0..size/2, col in row..size-row-1.
RECURSIVE RotateFrom(_, _, _, _)
RotateFrom(shape, direction, row, col) ==
    LET size == ShapeLen(shape)
    IN  IF row >= size \div 2 THEN shape
        ELSE IF col >= size - row - 1
             THEN RotateFrom(shape, direction, row + 1, row + 1)
             ELSE RotateFrom(RotateStep(shape, direction, row, col), direction, row, col + 1)

\* Piece::rotate
rotate(piece, direction) ==
    [piece EXCEPT !.shape = RotateFrom(piece.shape, direction, 0, 0)]

\* The two loops of each_point from raster index k on (row = k / piece_width,
\* col = k % piece_width): the (row, col) the callback is called with, in order.
RECURSIVE PointsFrom(_, _, _)
PointsFrom(shape, piece_width, k) ==
    IF k >= piece_width * piece_width THEN << >>
    ELSE IF shape[k \div piece_width][k % piece_width] # 0
         THEN << <<k \div piece_width, k % piece_width>> >>
              \o PointsFrom(shape, piece_width, k + 1)
         ELSE PointsFrom(shape, piece_width, k + 1)

\* Piece::each_point
each_point(piece) == PointsFrom(piece.shape, ShapeLen(piece.shape), 0)

\* -------------------------------------------------------------------- board
EmptyRow == [c \in 0..(BOARD_WIDTH - 1) |-> None]

EmptyCells == [r \in 0..(BOARD_HEIGHT - 1) |-> EmptyRow]

\* A variant of CollisionFrom that adds the row offset to x and the column offset
\* to y.
RECURSIVE CollisionFrom_transposed(_, _, _, _, _)
CollisionFrom_transposed(cells, pts, origin, i, found) ==
    IF i > Len(pts) THEN found
    ELSE LET x == origin.x + pts[i][1]
             y == origin.y + pts[i][2]
             hit == x < 0 \/ x >= BOARD_WIDTH \/ y < 0 \/ y >= BOARD_HEIGHT
                    \/ cells[y][x] # None
         IN  CollisionFrom_transposed(cells, pts, origin, i + 1,
                                      IF ~found /\ hit THEN TRUE ELSE found)

\* A variant of CollisionFrom whose test of the left edge is off by one
\* (x <= 0 for x < 0).
RECURSIVE CollisionFrom_left_margin(_, _, _, _, _)
CollisionFrom_left_margin(cells, pts, origin, i, found) ==
    IF i > Len(pts) THEN found
    ELSE LET x == origin.x + pts[i][2]
             y == origin.y + pts[i][1]
             hit == x <= 0 \/ x >= BOARD_WIDTH \/ y < 0 \/ y >= BOARD_HEIGHT
                    \/ cells[y][x] # None
         IN  CollisionFrom_left_margin(cells, pts, origin, i + 1,
                                       IF ~found /\ hit THEN TRUE ELSE found)

\* The callback of collision_test applied to the points from index i on.
RECURSIVE CollisionFrom(_, _, _, _, _)
CollisionFrom(cells, pts, origin, i, found) ==
    IF i > Len(pts) THEN found
    ELSE LET x == origin.x + pts[i][2]
             y == origin.y + pts[i][1]
             hit == x < 0 \/ x >= BOARD_WIDTH \/ y < 0 \/ y >= BOARD_HEIGHT
                    \/ cells[y][x] # None
         IN  CollisionFrom(cells, pts, origin, i + 1,
                           IF ~found /\ hit THEN TRUE ELSE found)

\* Board::collision_test
collision_test(cells, piece, origin) ==
    CollisionFrom(cells, each_point(piece), origin, 1, FALSE)

\* A variant of LockFrom that adds the row offset to x and the column offset
\* to y.
RECURSIVE LockFrom_transposed(_, _, _, _, _)
LockFrom_transposed(cells, pts, origin, color, i) ==
    IF i > Len(pts) THEN [cells |-> cells, panic |-> FALSE]
    ELSE LET x == origin.x + pts[i][1]
             y == origin.y + pts[i][2]
         IN  IF x < 0 \/ x >= BOARD_WIDTH \/ y < 0 \/ y >= BOARD_HEIGHT
             THEN [cells |-> cells, panic |-> TRUE]
             ELSE LockFrom_transposed([cells EXCEPT ![y] = [cells[y] EXCEPT ![x] = color]],
                                      pts, origin, color, i + 1)

\* The callback of lock_piece applied to the points from index i on; an index
\* outside the grid panics.
RECURSIVE LockFrom(_, _, _, _, _)
LockFrom(cells, pts, origin, color, i) ==
    IF i > Len(pts) THEN [cells |-> cells, panic |-> FALSE]
    ELSE LET x == origin.x + pts[i][2]
             y == origin.y + pts[i][1]
         IN  IF x < 0 \/ x >= BOARD_WIDTH \/ y < 0 \/ y >= BOARD_HEIGHT
             THEN [cells |-> cells, panic |-> TRUE]
             ELSE LockFrom([cells EXCEPT ![y] = [cells[y] EXCEPT ![x] = color]],
                           pts, origin, color, i + 1)

\* Board::lock_piece
lock_piece(cells, piece, origin) ==
    LockFrom(cells, each_point(piece), origin, piece.color, 1)

\* !self.cells[row].iter().any(|x| *x == None)
RowComplete(cells, row) == \A c \in 0..(BOARD_WIDTH - 1) : cells[row][c] # None

\* cells[row] = cells[src]; cells[src] = [None; BOARD_WIDTH], in that order.
ShiftRow(cells, row, src) ==
    LET moved == [cells EXCEPT ![row] = cells[src]]
    IN  [moved EXCEPT ![src] = EmptyRow]

\* A variant of ClearWhile with `if` for `while`: the row moved into `row` is
\* not tested.
ClearWhile_once(cells, cleared_lines, row) ==
    IF ~RowComplete(cells, row)
    THEN [cells |-> cells, cleared_lines |-> cleared_lines, panic |-> FALSE]
    ELSE IF row - (cleared_lines + 1) < 0
         THEN [cells |-> cells, cleared_lines |-> cleared_lines + 1, panic |-> TRUE]
         ELSE [cells |-> ShiftRow(cells, row, row - (cleared_lines + 1)),
               cleared_lines |-> cleared_lines + 1, panic |-> FALSE]

\* The while loop of clear_lines at `row`; row - cleared_lines is a usize
\* subtraction whose underflow panics.
RECURSIVE ClearWhile(_, _, _)
ClearWhile(cells, cleared_lines, row) ==
    IF ~RowComplete(cells, row)
    THEN [cells |-> cells, cleared_lines |-> cleared_lines, panic |-> FALSE]
    ELSE IF row - (cleared_lines + 1) < 0
         THEN [cells |-> cells, cleared_lines |-> cleared_lines + 1, panic |-> TRUE]
         ELSE ClearWhile(ShiftRow(cells, row, row - (cleared_lines + 1)),
                         cleared_lines + 1, row)

\* The for loop of clear_lines from `row` upwards (row = BOARD_HEIGHT-1 .. 0).
RECURSIVE ClearFrom(_, _, _)
ClearFrom(cells, cleared_lines, row) ==
    IF row < 0 \/ row - cleared_lines < 0
    THEN [cells |-> cells, cleared_lines |-> cleared_lines, panic |-> FALSE]
    ELSE LET shifted == IF cleared_lines > 0
                        THEN ShiftRow(cells, row, row - cleared_lines)
                        ELSE cells
             w == ClearWhile(shifted, cleared_lines, row)
         IN  IF w.panic THEN w
             ELSE ClearFrom(w.cells, w.cleared_lines, row - 1)

\* Board::clear_lines: the new cells, the returned count, and whether it panicked.
clear_lines(cells) == ClearFrom(cells, 0, BOARD_HEIGHT - 1)

\* ---------------------------------------------------------------- piece bag
\* The array literal of fill_bag, in its order: O, L, J, T, S, Z, I.
Canonical ==
    [i \in 0..(BAG_SIZE - 1) |->
        CASE i = 0 -> Some(new_o) [] i = 1 -> Some(new_l) [] i = 2 -> Some(new_j)
          [] i = 3 -> Some(new_t) [] i = 4 -> Some(new_s) [] i = 5 -> Some(new_z)
          [] OTHER -> Some(new_i)]

\* One outcome of (0..7).collect() followed by indices.shuffle(&mut rng): the
\* n-th ordering of a fixed enumeration of orderings of 0..6 (the rotations of
\* the identity, then the rotations of its reverse). The first orderings
\* start with I, T, O, S, L, Z, J.
Ordering(n) ==
    LET start == (6 + 4 * n) % BAG_SIZE
    IN  [j \in 0..(BAG_SIZE - 1) |->
            IF (n \div BAG_SIZE) % 2 = 0
            THEN (start + j) % BAG_SIZE
            ELSE (start + BAG_SIZE - j) % BAG_SIZE]

\* The orderings the shuffle is drawn from.
Shuffles == { Ordering(n) : n \in 0..(MaxShuffles - 1) }

\* The for loop of fill_bag from slot i on: `local` is the array of the seven
\* fresh pieces, emptied by take() as they are handed out.
RECURSIVE FillFrom(_, _, _, _)
FillFrom(pieces, local, indices, i) ==
    IF i >= BAG_SIZE THEN pieces
    ELSE IF local[indices[i]] # NoPiece
         THEN FillFrom([pieces EXCEPT ![i] = local[indices[i]]],
                       [local EXCEPT ![indices[i]] = NoPiece], indices, i + 1)
         ELSE FillFrom(pieces, local, indices, i + 1)

\* PieceBag::fill_bag with `indices` the shuffled index vector.
fill_bag(pieces, indices) == FillFrom(pieces, Canonical, indices, 0)

\* PieceBag::new
PieceBag_new(indices) == fill_bag([i \in 0..(BAG_SIZE - 1) |-> NoPiece], indices)

\* for i in 0..6 { pieces[i] = pieces[i + 1].take() }
ShiftBag(pieces) ==
    [i \in 0..(BAG_SIZE - 1) |-> IF i < BAG_SIZE - 1 THEN pieces[i + 1] ELSE NoPiece]

\* A variant of pop that never refills the bag after the shift.
pop_no_refill(pieces, refill, heal) ==
    IF pieces[0] # NoPiece
    THEN [pieces |-> ShiftBag(pieces), piece |-> pieces[0][1]]
    ELSE LET filled == fill_bag(pieces, heal)
         IN  [pieces |-> ShiftBag(filled), piece |-> filled[0][1]]

\* PieceBag::pop: `refill` is the shuffle drawn by the fill_bag after the
\* shift, `heal` the one drawn by the fill_bag of the empty-front branch.
RECURSIVE pop(_, _, _)
pop(pieces, refill, heal) ==
    IF pieces[0] # NoPiece
    THEN LET shifted == ShiftBag(pieces)
         IN  [pieces |-> IF shifted[BAG_SIZE - 1] = NoPiece
                         THEN fill_bag(shifted, refill)
                         ELSE shifted,
              piece |-> pieces[0][1]]
    ELSE pop(fill_bag(pieces, heal), refill, heal)

\* A variant of peek that reads the slot behind the front one.
peek_second(pieces) ==
    IF pieces[0] # NoPiece
    THEN [piece |-> pieces[1], panic |-> FALSE]
    ELSE [piece |-> NoPiece, panic |-> TRUE]

\* PieceBag::peek: the front piece, and whether peek panicked.
peek(pieces) ==
    IF pieces[0] # NoPiece
    THEN [piece |-> pieces[0], panic |-> FALSE]
    ELSE [piece |-> NoPiece, panic |-> TRUE]

\* --------------------------------------------------------------------- game
\* The origin place_new_piece computes: ((BOARD_WIDTH - len) / 2, 0).
SpawnOrigin(piece) == Point((BOARD_WIDTH - ShapeLen(piece.shape)) \div 2, 0)

\* A variant of place_new_piece that places the piece without the collision
\* test.
place_new_piece_forced(g) ==
    [game |-> [g EXCEPT !.piece_position = SpawnOrigin(g.piece)], ret |-> TRUE]

\* Game::place_new_piece
place_new_piece(g) ==
    LET origin == SpawnOrigin(g.piece)
    IN  IF collision_test(g.board, g.piece, origin)
        THEN [game |-> g, ret |-> FALSE]
        ELSE [game |-> [g EXCEPT !.piece_position = origin], ret |-> TRUE]

\* Game::new: `first` is the shuffle of PieceBag::new, `refill` that of the pop.
Game_new(first, refill) ==
    LET popped == pop(PieceBag_new(first), refill, refill)
        game == [board |-> EmptyCells,
                 piece_bag |-> popped.pieces,
                 piece |-> popped.piece,
                 piece_position |-> Point(0, 0),
                 level |-> 0,
                 score |-> 0,
                 total_lines |-> 0,
                 game_over |-> FALSE]
    IN  place_new_piece(game).game

\* Game::find_dropped_position: the while loop from `origin` on.
RECURSIVE DroppedFrom(_, _)
DroppedFrom(g, origin) ==
    IF ~collision_test(g.board, g.piece, origin)
    THEN DroppedFrom(g, Point(origin.x, origin.y + 1))
    ELSE Point(origin.x, origin.y - 1)

find_dropped_position(g) == DroppedFrom(g, g.piece_position)

\* A variant of move_piece that collision-tests the current position instead of
\* the new one.
move_piece_stale_test(g, x, y) ==
    LET new_position == Point(g.piece_position.x + x, g.piece_position.y + y)
    IN  IF collision_test(g.board, g.piece, g.piece_position)
        THEN [game |-> g, ret |-> FALSE]
        ELSE [game |-> [g EXCEPT !.piece_position = new_position], ret |-> TRUE]

\* Game::move_piece
move_piece(g, x, y) ==
    LET new_position == Point(g.piece_position.x + x, g.piece_position.y + y)
    IN  IF collision_test(g.board, g.piece, new_position)
        THEN [game |-> g, ret |-> FALSE]
        ELSE [game |-> [g EXCEPT !.piece_position = new_position], ret |-> TRUE]

\* A variant of rotate_piece that rotates the piece in place and does not undo
\* the rotation when it collides.
rotate_piece_keeps_rotation(g, direction) ==
    LET new_piece == rotate(g.piece, direction)
    IN  IF collision_test(g.board, new_piece, g.piece_position)
        THEN [game |-> [g EXCEPT !.piece = new_piece], ret |-> FALSE]
        ELSE [game |-> [g EXCEPT !.piece = new_piece], ret |-> TRUE]

\* Game::rotate_piece
rotate_piece(g, direction) ==
    LET new_piece == rotate(g.piece, direction)
    IN  IF collision_test(g.board, new_piece, g.piece_position)
        THEN [game |-> g, ret |-> FALSE]
        ELSE [game |-> [g EXCEPT !.piece = new_piece], ret |-> TRUE]

\* A variant of ScoreAward without the arm for four lines.
ScoreAward_no_tetris(lines_cleared) ==
    CASE lines_cleared = 1 -> 40
      [] lines_cleared = 2 -> 100
      [] lines_cleared = 3 -> 300
      [] OTHER -> 0

\* The score awarded for lines_cleared lines.
ScoreAward(lines_cleared) ==
    CASE lines_cleared = 1 -> 40
      [] lines_cleared = 2 -> 100
      [] lines_cleared = 3 -> 300
      [] lines_cleared = 4 -> 1200
      [] OTHER -> 0

\* A variant of AwardLines that assigns the award to score instead of adding it.
AwardLines_overwrite(g, lines_cleared) ==
    IF lines_cleared > 0
    THEN LET scored == [g EXCEPT !.score = ScoreAward(lines_cleared),
                                 !.total_lines = g.total_lines + lines_cleared]
         IN  IF lines_cleared > 0 /\ scored.total_lines >= scored.level * 10
             THEN [scored EXCEPT !.level = scored.level + 1]
             ELSE scored
    ELSE g

\* The `if lines_cleared > 0` block of advance_game: score, total_lines, level.
AwardLines(g, lines_cleared) ==
    IF lines_cleared > 0
    THEN LET scored == [g EXCEPT !.score = g.score + ScoreAward(lines_cleared),
                                 !.total_lines = g.total_lines + lines_cleared]
         IN  IF lines_cleared > 0 /\ scored.total_lines >= scored.level * 10
             THEN [scored EXCEPT !.level = scored.level + 1]
             ELSE scored
    ELSE g

\* A variant of SpawnNext whose first game-over branch returns false without
\* setting game_over.
SpawnNext_flag_missing(g, refill, heal) ==
    LET popped == pop(g.piece_bag, refill, heal)
        next == [g EXCEPT !.piece = popped.piece, !.piece_bag = popped.pieces]
        placed == place_new_piece(next)
    IN  IF ~placed.ret
        THEN IF next.piece_position.y <= HIDDEN_ROWS
             THEN [game |-> next, ret |-> FALSE]
             ELSE IF collision_test(next.board, next.piece, next.piece_position)
                  THEN [game |-> [next EXCEPT !.game_over = TRUE], ret |-> FALSE]
                  ELSE [game |-> [next EXCEPT !.game_over = TRUE], ret |-> FALSE]
        ELSE [game |-> placed.game, ret |-> TRUE]

\* The tail of advance_game: pop the next piece and place it; the three
\* game-over branches.
SpawnNext(g, refill, heal) ==
    LET popped == pop(g.piece_bag, refill, heal)
        next == [g EXCEPT !.piece = popped.piece, !.piece_bag = popped.pieces]
        placed == place_new_piece(next)
    IN  IF ~placed.ret
        THEN IF next.piece_position.y <= HIDDEN_ROWS
             THEN [game |-> [next EXCEPT !.game_over = TRUE], ret |-> FALSE]
             ELSE IF collision_test(next.board, next.piece, next.piece_position)
                  THEN [game |-> [next EXCEPT !.game_over = TRUE], ret |-> FALSE]
                  ELSE [game |-> [next EXCEPT !.game_over = TRUE], ret |-> FALSE]
        ELSE [game |-> placed.game, ret |-> TRUE]

\* Game::advance_game: the game after the call, the value returned, and
\* whether the call panicked (in lock_piece or clear_lines).
advance_game(g, refill, heal) ==
    LET moved == move_piece(g, 0, 1)
    IN  IF ~moved.ret
        THEN LET locked == lock_piece(g.board, g.piece, g.piece_position)
                 cleared == clear_lines(locked.cells)
             IN  IF locked.panic \/ cleared.panic
                 THEN [game |-> [g EXCEPT !.board = IF locked.panic THEN locked.cells
                                                    ELSE cleared.cells],
                       ret |-> FALSE, panic |-> TRUE]
                 ELSE LET spawned ==
                              SpawnNext(AwardLines([g EXCEPT !.board = cleared.cells],
                                                   cleared.cleared_lines),
                                        refill, heal)
                      IN  [game |-> spawned.game, ret |-> spawned.ret, panic |-> FALSE]
        ELSE [game |-> moved.game, ret |-> TRUE, panic |-> FALSE]

\* A variant of DropLoop with `if` for `while`: the piece moves down once at
\* most.
DropLoop_single(g) ==
    LET moved == move_piece(g, 0, 1)
    IN  IF moved.ret THEN moved.game ELSE g

\* while self.move_piece(0, 1) {}
RECURSIVE DropLoop(_)
DropLoop(g) ==
    LET moved == move_piece(g, 0, 1)
    IN  IF moved.ret THEN DropLoop(moved.game) ELSE g

\* Game::drop_piece
drop_piece(g, refill, heal) == advance_game(DropLoop(g), refill, heal)

\* Lifts a [game, ret] result to a [game, ret, panic] one.
NoPanic(r) == [game |-> r.game, ret |-> r.ret, panic |-> FALSE]

\* Game::keypress: the match over the key.
keypress(g, key, refill, heal) ==
    CASE key = "Left" -> NoPanic(move_piece(g, -1, 0))
      [] key = "Right" -> NoPanic(move_piece(g, 1, 0))
      [] key = "Down" -> advance_game(g, refill, heal)
      [] key = "Up" -> NoPanic(rotate_piece(g, "Left"))
      [] key = "Space" -> drop_piece(g, refill, heal)
      [] key = "Char_q" -> NoPanic(rotate_piece(g, "Left"))
      [] key = "Char_e" -> NoPanic(rotate_piece(g, "Right"))
      [] OTHER -> [game |-> g, ret |-> FALSE, panic |-> FALSE]

\* ---------------------------------------------------------------- game loop
\* The keys get_input yields: the named keys, and Char(c) for the characters
\* the loop or keypress treat specially plus one other character.
Keys == {"Up", "Down", "Left", "Right", "Space", "CtrlC",
         "Char_q", "Char_e", "Char_r", "Char_z", "Char_x"}

Tick == [type |-> "Tick"]

KeyPress(key) == [type |-> "KeyPress", key |-> key]

VARIABLES
    game,    \* the Game aggregate owned by the consumer loop
    chan,    \* the mpsc channel: the events sent and not yet received
    pc,      \* the consumer: "recv" (blocked in rx_event.recv()), "exited"
             \* (the loop was left by break) or "aborted" (a panic)
    last,    \* the operation the loop applied to the last event it received,
             \* and the value the operation returned
    nsent,   \* the number of events sent so far
    probe    \* the object a stand-alone operation is applied to (a PieceBag, a
             \* Board with a piece and an origin) and what the operation returned

vars == <<game, chan, pc, last, nsent, probe>>

NoProbe == [kind |-> "none"]

\* Sender::send on the mpsc channel: the update joins the queue at its back.
send(ch, update) == Append(ch, update)

\* A variant of recv that hands out the newest update of the queue.
recv_newest(ch) == [update |-> ch[Len(ch)], rest |-> SubSeq(ch, 1, Len(ch) - 1)]

\* Receiver::recv on a channel that is not empty: the oldest update of the
\* queue, and the queue left.
recv(ch) == [update |-> Head(ch), rest |-> Tail(ch)]

\* The record of a run kept beside the loop when probe is of kind "channel":
\* `sent` lists the updates in the order the send calls enqueued them,
\* `handled` the updates the loop received, each with the operation the match
\* applied to it.
Sent(p, update) ==
    IF p.kind = "channel" THEN [p EXCEPT !.sent = Append(p.sent, update)] ELSE p

Handled(p, update, op) ==
    IF p.kind = "channel"
    THEN [p EXCEPT !.handled = Append(p.handled, [update |-> update, op |-> op])]
    ELSE p

\* Game::render up to what can fail: the peek of the next piece.
RenderPanics(g) == peek(g.piece_bag).panic

\* The top of the loop body: display_game_over_screen or render.
LoopTop(g) == IF g.game_over THEN "recv" ELSE IF RenderPanics(g) THEN "aborted" ELSE "recv"

\* A variant of OnTick without the game_over test.
OnTick_unguarded(g, refill, heal) ==
    LET r == advance_game(g, refill, heal)
    IN  [game |-> r.game, op |-> "advance_game", ret |-> r.ret,
         panic |-> r.panic, break |-> FALSE]

\* The Tick arm of the match in play.
OnTick(g, refill, heal) ==
    IF ~g.game_over
    THEN LET r == advance_game(g, refill, heal)
         IN  [game |-> r.game, op |-> "advance_game", ret |-> r.ret,
              panic |-> r.panic, break |-> FALSE]
    ELSE [game |-> g, op |-> "none", ret |-> FALSE, panic |-> FALSE, break |-> FALSE]

\* The KeyPress arm of the match in play.
OnKeyPress(g, key, first, refill, heal) ==
    IF ~g.game_over
    THEN IF key \in {"Char_z", "CtrlC"}
         THEN IF g.game_over
              THEN [game |-> g, op |-> "quit", ret |-> FALSE, panic |-> FALSE,
                    break |-> TRUE]
              ELSE [game |-> g, op |-> "none", ret |-> FALSE, panic |-> FALSE,
                    break |-> FALSE]
         ELSE IF g.game_over
              THEN IF key = "Char_r"
                   THEN [game |-> [Game_new(first, refill) EXCEPT !.game_over = FALSE],
                         op |-> "restart", ret |-> FALSE, panic |-> FALSE,
                         break |-> FALSE]
                   ELSE [game |-> g, op |-> "none", ret |-> FALSE, panic |-> FALSE,
                         break |-> FALSE]
              ELSE LET r == keypress(g, key, refill, heal)
                   IN  [game |-> r.game, op |-> "keypress", ret |-> r.ret,
                        panic |-> r.panic, break |-> FALSE]
    ELSE [game |-> g, op |-> "none", ret |-> FALSE, panic |-> FALSE, break |-> FALSE]

\* One iteration of the loop of play on the received `update`.
OnUpdate(g, update, first, refill, heal) ==
    IF update.type = "Tick"
    THEN OnTick(g, refill, heal)
    ELSE OnKeyPress(g, update.key, first, refill, heal)

\* Boards reached in play.
\* WellBoard(k): the k bottom rows hold two I pieces each, lying in columns
\* 0-3 and 5-8, and an I piece stands in column 9 (rows 16-19); column 4 is
\* a well. Played with 2k+1 I pieces and no line cleared.
WellBoard(k) ==
    [r \in 0..(BOARD_HEIGHT - 1) |->
        [c \in 0..(BOARD_WIDTH - 1) |->
            IF \/ (r >= BOARD_HEIGHT - k /\ c # 4 /\ c # 9)
               \/ (r >= BOARD_HEIGHT - 4 /\ c = 9)
            THEN "Cyan" ELSE None]]

\* StackBoard: nine O pieces dropped from the spawn origin without a key
\* pressed: columns 4-5 are full from row 2 down.
StackBoard ==
    [r \in 0..(BOARD_HEIGHT - 1) |->
        [c \in 0..(BOARD_WIDTH - 1) |->
            IF r >= HIDDEN_ROWS /\ c \in {4, 5} THEN "Cyan" ELSE None]]

\* BrimBoard: thirty-six O pieces stacked nine high on columns 1-2, 3-4, 5-6
\* and 7-8 (rows 2-19; columns 0 and 9 stay empty there, so no row is
\* complete), then four O pieces moved along the two top rows and locked on
\* the stacks at columns 0-1, 2-3, 8-9 and 6-7. Rows 0-1 lack columns 4-5
\* only, where the next piece is placed.
BrimBoard ==
    [r \in 0..(BOARD_HEIGHT - 1) |->
        [c \in 0..(BOARD_WIDTH - 1) |->
            IF \/ (r >= HIDDEN_ROWS /\ c \in 1..(BOARD_WIDTH - 2))
               \/ (r < HIDDEN_ROWS /\ c \notin {4, 5})
            THEN "Cyan" ELSE None]]

\* The counters of a game in play: no line cleared so far, or one clear of
\* four lines so far (an I piece dropped into the well of WellBoard(4), which
\* leaves the board empty, score 1200, total_lines 4 and level 1).
Played == { [score |-> 0, total_lines |-> 0, level |-> 0],
            [score |-> ScoreAward(4), total_lines |-> 4, level |-> 1] }

\* The games play starts from. Game::new with every outcome of its two
\* shuffles; and games in play whose piece has just been placed: an I piece
\* over each WellBoard, built from an empty board with either of the Played
\* counters, and an O piece over StackBoard (Ordering(0) puts I first,
\* Ordering(2) puts O first), with every outcome of the shuffle that refilled
\* the bag; and an O piece over BrimBoard likewise. SpecReplay plays each of
\* them from Game::new (ReplayReachesStart).
StartGames ==
    { Game_new(first, refill) : first \in Shuffles, refill \in Shuffles }
    \cup { [Game_new(Ordering(0), refill) EXCEPT !.board = WellBoard(k),
                                                 !.score = p.score,
                                                 !.total_lines = p.total_lines,
                                                 !.level = p.level] :
              refill \in Shuffles, k \in 1..4, p \in Played }
    \cup { [Game_new(Ordering(2), refill) EXCEPT !.board = cells] :
              refill \in Shuffles, cells \in {StackBoard, BrimBoard} }

Init ==
    /\ game \in StartGames
    /\ chan = << >>
    /\ pc = LoopTop(game)
    /\ last = [op |-> "new", ret |-> FALSE]
    /\ nsent = 0
    /\ probe = NoProbe

\* The ticker thread: tx_event.send(GameUpdate::Tick).
TickerSend ==
    /\ nsent < MaxEvents
    /\ Len(chan) < MaxQueue
    /\ chan' = send(chan, Tick)
    /\ probe' = Sent(probe, Tick)
    /\ nsent' = nsent + 1
    /\ UNCHANGED <<game, pc, last>>

\* The input thread: tx_event.send(GameUpdate::KeyPress(k)).
InputSend ==
    /\ nsent < MaxEvents
    /\ Len(chan) < MaxQueue
    /\ \E k \in Keys :
          /\ chan' = send(chan, KeyPress(k))
          /\ probe' = Sent(probe, KeyPress(k))
    /\ nsent' = nsent + 1
    /\ UNCHANGED <<game, pc, last>>

\* Whether handling `update` in game g can reach a fill_bag, that is draw a
\* shuffle: a restart, or an advance_game whose piece cannot move down. When
\* it cannot, every shuffle gives the same step and one is enough.
DrawsShuffle(g, update) ==
    \/ g.game_over
    \/ update.type = "Tick"
    \/ update.type = "KeyPress" /\ update.key \in {"Down", "Space"}

\* The consumer: rx_event.recv() returns the oldest event, the match handles
\* it, and the loop comes back to its top (render) or is left.
Recv ==
    /\ pc = "recv"
    /\ chan # << >>
    /\ \E u \in {recv(chan)} :
       \E refill \in (IF DrawsShuffle(game, u.update) THEN Shuffles ELSE {Ordering(0)}) :
       \E first \in (IF game.game_over THEN Shuffles ELSE {refill}) :
       \E heal \in (IF game.piece_bag[0] = NoPiece THEN Shuffles ELSE {refill}) :
       \E r \in {OnUpdate(game, u.update, first, refill, heal)} :
          /\ game' = r.game
          /\ last' = [op |-> r.op, ret |-> r.ret]
          /\ pc' = IF r.panic THEN "aborted"
                   ELSE IF r.break THEN "exited"
                   ELSE LoopTop(r.game)
          /\ chan' = u.rest
          /\ probe' = Handled(probe, u.update, r.op)
    /\ UNCHANGED nsent

Next == TickerSend \/ InputSend \/ Recv

Spec == Init /\ [][Next]_vars

\* The loop with the record of its run kept: from Game::new, from the game
\* over StackBoard, which the first Tick ends, and from the game over
\* BrimBoard, where the first Tick aborts the program.
InitChannel ==
    /\ game \in { Game_new(Ordering(0), Ordering(0)),
                   [Game_new(Ordering(2), Ordering(2)) EXCEPT !.board = StackBoard],
                   [Game_new(Ordering(2), Ordering(2)) EXCEPT !.board = BrimBoard] }
    /\ chan = << >>
    /\ pc = LoopTop(game)
    /\ last = [op |-> "new", ret |-> FALSE]
    /\ nsent = 0
    /\ probe = [kind |-> "channel", sent |-> << >>, handled |-> << >>]

SpecChannel == InitChannel /\ [][Next]_vars

\* ------------------------------------------------- stand-alone operations
\* The game loop at rest, for the specifications that apply one operation to a
\* stand-alone object held in `probe`.
LoopIdle ==
    /\ game = Game_new(Ordering(0), Ordering(0))
    /\ chan = << >>
    /\ pc = "recv"
    /\ last = [op |-> "new", ret |-> FALSE]
    /\ nsent = 0

\* A PieceBag created by PieceBag::new; `popped` lists what its pops returned,
\* `peeked` is what peek returned if the last call was a peek, and `shown` what
\* the peek just before the last pop returned (NoPiece without such a peek).
InitBag ==
    /\ LoopIdle
    /\ \E indices \in Shuffles :
          probe = [kind |-> "bag", pieces |-> PieceBag_new(indices), popped |-> << >>,
                   peeked |-> NoPiece, shown |-> NoPiece]

\* One call of pop on the stand-alone bag.
BagPop ==
    /\ probe.kind = "bag"
    /\ pc = "recv"
    /\ Len(probe.popped) < MaxPops
    /\ \E refill \in Shuffles :
       \E heal \in (IF probe.pieces[0] = NoPiece THEN Shuffles ELSE {refill}) :
       \E r \in {pop(probe.pieces, refill, heal)} :
          probe' = [kind |-> "bag", pieces |-> r.pieces,
                    popped |-> Append(probe.popped, r.piece),
                    peeked |-> NoPiece, shown |-> probe.peeked]
    /\ UNCHANGED <<game, chan, pc, last, nsent>>

\* One call of peek on the stand-alone bag: peek takes &self, so the slots
\* stay as they are; a panic of peek ends the program.
BagPeek ==
    /\ probe.kind = "bag"
    /\ pc = "recv"
    /\ probe.peeked = NoPiece
    /\ \E r \in {peek(probe.pieces)} :
          /\ probe' = [probe EXCEPT !.peeked = r.piece, !.shown = NoPiece]
          /\ pc' = IF r.panic THEN "aborted" ELSE pc
    /\ UNCHANGED <<game, chan, last, nsent>>

SpecBag == InitBag /\ [][BagPop \/ BagPeek]_vars

\* Rows of a board to clear: an empty row, a complete row, and for each row
\* index a partial row unlike that of any other index (one hole, in column
\* r % BOARD_WIDTH, and a colour that tells rows 0-9 from rows 10-19).
FullRow == [c \in 0..(BOARD_WIDTH - 1) |-> "Red"]

PartialRow(r) ==
    [c \in 0..(BOARD_WIDTH - 1) |->
        IF c = r % BOARD_WIDTH THEN None
        ELSE IF r < BOARD_WIDTH THEN "Blue" ELSE "Green"]

RowOfKind(kind, r) ==
    CASE kind = "empty" -> EmptyRow
      [] kind = "full" -> FullRow
      [] OTHER -> PartialRow(r)

\* Number of rows at the top, and at the bottom, of a board to clear whose
\* content is drawn freely; the rows between are all empty or all partial.
MaxTopRows == 3
MaxBottomRows == 2

FreeRows == 0..(MaxTopRows - 1) \cup (BOARD_HEIGHT - MaxBottomRows)..(BOARD_HEIGHT - 1)

ClearBoards ==
    { [r \in 0..(BOARD_HEIGHT - 1) |->
          IF r \in FreeRows THEN RowOfKind(kinds[r], r) ELSE RowOfKind(middle, r)] :
        kinds \in [FreeRows -> {"empty", "partial", "full"}],
        middle \in {"empty", "partial"} }

\* A board about to be cleared.
InitClear ==
    /\ LoopIdle
    /\ \E cells \in ClearBoards :
          probe = [kind |-> "clear", cells |-> cells, done |-> FALSE]

\* One call of clear_lines on the stand-alone board; `cells` keeps the board
\* it was called on.
ClearApply ==
    /\ probe.kind = "clear"
    /\ ~probe.done
    /\ \E r \in {clear_lines(probe.cells)} :
          probe' = [kind |-> "clear", cells |-> probe.cells, done |-> TRUE,
                    after |-> r.cells, ret |-> r.cleared_lines, panic |-> r.panic]
    /\ UNCHANGED <<game, chan, pc, last, nsent>>

SpecClear == InitClear /\ [][ClearApply]_vars

\* Every orientation of the seven pieces.
Orientations ==
    UNION { { Canonical[i][1],
              rotate(Canonical[i][1], "Left"),
              rotate(Canonical[i][1], "Right"),
              rotate(rotate(Canonical[i][1], "Left"), "Left") } :
            i \in 0..(BAG_SIZE - 1) }

\* How far outside the grid the origins of a collision test go, on each side.
MaxOutside == 2

Origins ==
    { Point(x, y) : x \in (0 - MaxOutside)..(BOARD_WIDTH - 1 + MaxOutside),
                    y \in (0 - MaxOutside)..(BOARD_HEIGHT - 1 + MaxOutside) }

\* A board, a piece and an origin about to be collision-tested.
InitCollision ==
    /\ LoopIdle
    /\ \E cells \in {EmptyCells, StackBoard, WellBoard(4)}, piece \in Orientations,
          origin \in Origins :
          probe = [kind |-> "collision", cells |-> cells, piece |-> piece,
                   origin |-> origin, done |-> FALSE]

\* One call of collision_test.
CollisionApply ==
    /\ probe.kind = "collision"
    /\ ~probe.done
    /\ probe' = [kind |-> "collision", cells |-> probe.cells, piece |-> probe.piece,
                 origin |-> probe.origin, done |-> TRUE,
                 found |-> collision_test(probe.cells, probe.piece, probe.origin)]
    /\ UNCHANGED <<game, chan, pc, last, nsent>>

SpecCollision == InitCollision /\ [][CollisionApply]_vars

\* Games in play with the piece anywhere it does not collide: every
\* orientation of every piece at every collision-free origin over an empty
\* board, StackBoard and WellBoard(4) (the columns of both are open from the
\* top, so the piece gets there by moves and rotations from its spawn origin).
ActiveGames ==
    { g \in { [Game_new(Ordering(0), Ordering(0)) EXCEPT !.board = cells,
                                                         !.piece = piece,
                                                         !.piece_position = origin] :
                cells \in {EmptyCells, StackBoard, WellBoard(4)},
                piece \in Orientations, origin \in Origins } :
        ~collision_test(g.board, g.piece, g.piece_position) }

\* A game in play about to receive one call of one of its methods.
InitCalls ==
    /\ game \in ActiveGames
    /\ chan = << >>
    /\ pc = "recv"
    /\ last = [op |-> "new", ret |-> FALSE]
    /\ nsent = 0
    /\ probe = [kind |-> "call", done |-> FALSE]

\* The offsets move_piece is called with: keypress (left, right) and
\* advance_game, drop_piece (down).
MoveOffsets == { Point(-1, 0), Point(1, 0), Point(0, 1) }

\* One call of move_piece.
MoveCall ==
    /\ probe.kind = "call"
    /\ ~probe.done
    /\ \E d \in MoveOffsets :
       \E r \in {move_piece(game, d.x, d.y)} :
          /\ game' = r.game
          /\ probe' = [kind |-> "call", done |-> TRUE, op |-> "move_piece",
                       arg |-> d, ret |-> r.ret]
    /\ UNCHANGED <<chan, pc, last, nsent>>

\* One call of rotate_piece.
RotateCall ==
    /\ probe.kind = "call"
    /\ ~probe.done
    /\ \E direction \in {"Left", "Right"} :
       \E r \in {rotate_piece(game, direction)} :
          /\ game' = r.game
          /\ probe' = [kind |-> "call", done |-> TRUE, op |-> "rotate_piece",
                       arg |-> direction, ret |-> r.ret]
    /\ UNCHANGED <<chan, pc, last, nsent>>

\* One call of find_dropped_position (&self: the Game is only read).
GhostCall ==
    /\ probe.kind = "call"
    /\ ~probe.done
    /\ probe' = [kind |-> "call", done |-> TRUE, op |-> "find_dropped_position",
                 ret |-> find_dropped_position(game)]
    /\ UNCHANGED <<game, chan, pc, last, nsent>>

\* One call of drop_piece; `from` keeps the game it was called on and `refill`
\* the shuffle its pop drew.
DropCall ==
    /\ probe.kind = "call"
    /\ ~probe.done
    /\ \E refill \in Shuffles :
       \E r \in {drop_piece(game, refill, refill)} :
          /\ game' = r.game
          /\ probe' = [kind |-> "call", done |-> TRUE, op |-> "drop_piece",
                       from |-> game, refill |-> refill, ret |-> r.ret,
                       panic |-> r.panic]
    /\ UNCHANGED <<chan, pc, last, nsent>>

SpecCalls == InitCalls /\ [][MoveCall \/ RotateCall \/ GhostCall \/ DropCall]_vars

\* Number of rotate calls applied to a stand-alone piece.
MaxTurns == 8

\* A piece about to be rotated MaxTurns times in one direction; `start` keeps
\* the piece before the first call.
InitRotate ==
    /\ LoopIdle
    /\ \E piece \in Orientations, direction \in {"Left", "Right"} :
          probe = [kind |-> "rotate", start |-> piece, piece |-> piece,
                   direction |-> direction, turns |-> 0]

\* One call of rotate.
RotateApply ==
    /\ probe.kind = "rotate"
    /\ probe.turns < MaxTurns
    /\ probe' = [probe EXCEPT !.piece = rotate(probe.piece, probe.direction),
                              !.turns = probe.turns + 1]
    /\ UNCHANGED <<game, chan, pc, last, nsent>>

SpecRotate == InitRotate /\ [][RotateApply]_vars

\* Number of advance_game calls made on a fresh game.
MaxCalls == 40

\* Seven outcomes of the shuffle of PieceBag::new, each putting another piece
\* first: I, T, O, S, L, Z, J.
FirstOrderings == { Ordering(n) : n \in 0..(BAG_SIZE - 1) }

\* A fresh game about to be driven by calls of one method only: move_piece(-1, 0)
\* until it returns false ("left"), or advance_game ("advance"). `first` keeps
\* the piece and `spawn` the origin Game::new placed it at.
InitDrive ==
    /\ chan = << >>
    /\ pc = "recv"
    /\ last = [op |-> "new", ret |-> FALSE]
    /\ nsent = 0
    /\ \E first \in FirstOrderings, refill \in Shuffles :
          game = Game_new(first, refill)
    /\ \E mode \in {"left", "advance"} :
          probe = [kind |-> "drive", mode |-> mode, calls |-> 0, stopped |-> FALSE,
                   first |-> game.piece, spawn |-> game.piece_position]

\* One call of move_piece(-1, 0); the driver stops when it returns false.
LeftCall ==
    /\ probe.kind = "drive"
    /\ probe.mode = "left"
    /\ ~probe.stopped
    /\ \E r \in {move_piece(game, -1, 0)} :
          /\ game' = r.game
          /\ probe' = [probe EXCEPT !.calls = probe.calls + 1, !.stopped = ~r.ret]
    /\ UNCHANGED <<chan, pc, last, nsent>>

\* One call of advance_game; the driver stops when it returns false or panics.
AdvanceCall ==
    /\ probe.kind = "drive"
    /\ probe.mode = "advance"
    /\ ~probe.stopped
    /\ probe.calls < MaxCalls
    /\ \E refill \in (IF move_piece(game, 0, 1).ret THEN {Ordering(0)} ELSE Shuffles) :
       \E r \in {advance_game(game, refill, refill)} :
          /\ game' = r.game
          /\ probe' = [probe EXCEPT !.calls = probe.calls + 1,
                                    !.stopped = ~r.ret \/ r.panic]
    /\ UNCHANGED <<chan, pc, last, nsent>>

SpecDrive == InitDrive /\ [][LeftCall \/ AdvanceCall]_vars

\* ---------------------------------------------------------- ticks only
\* The number of fill_bag shuffles, after those of Game::new, that are drawn
\* freely in a run of ticks; the fill_bag calls after them repeat the last one.
MaxVaried == 2

\* play on a fresh game with no key ever pressed: the input thread never
\* sends. `indices` is the last shuffle drawn and `draws` counts the shuffles
\* drawn since Game::new.
InitTicks ==
    /\ \E first \in Shuffles, refill \in Shuffles :
          /\ game = Game_new(first, refill)
          /\ probe = [kind |-> "ticks", indices |-> refill, draws |-> 0]
    /\ chan = << >>
    /\ pc = LoopTop(game)
    /\ last = [op |-> "new", ret |-> FALSE]
    /\ nsent = 0

\* The ticker thread, which never leaves its loop: sleep, then
\* tx_event.send(GameUpdate::Tick). No count of the events is kept.
TickerRun ==
    /\ probe.kind = "ticks"
    /\ Len(chan) < MaxQueue
    /\ chan' = send(chan, Tick)
    /\ UNCHANGED <<game, pc, last, nsent, probe>>

\* The consumer of the run of ticks: as Recv, with the shuffle of a fill_bag
\* drawn freely MaxVaried times and repeated afterwards.
TickRecv ==
    /\ probe.kind = "ticks"
    /\ pc = "recv"
    /\ chan # << >>
    /\ \E u \in {recv(chan)} :
       \E draws \in {~game.game_over /\ ~move_piece(game, 0, 1).ret} :
       \E refill \in (IF draws /\ probe.draws < MaxVaried
                      THEN Shuffles ELSE {probe.indices}) :
       \E r \in {OnUpdate(game, u.update, refill, refill, refill)} :
          /\ game' = r.game
          /\ last' = [op |-> r.op, ret |-> r.ret]
          /\ pc' = IF r.panic THEN "aborted"
                   ELSE IF r.break THEN "exited"
                   ELSE LoopTop(r.game)
          /\ chan' = u.rest
          /\ probe' = IF draws /\ probe.draws < MaxVaried
                      THEN [probe EXCEPT !.indices = refill, !.draws = @ + 1]
                      ELSE probe
    /\ UNCHANGED nsent

\* TickRecv can be taken exactly when the loop waits in recv and the channel
\* holds an event, and it always changes chan.
TickRecvEnabled == probe.kind = "ticks" /\ pc = "recv" /\ chan # << >>

\* Weak fairness of the consumer, WF_vars(TickRecv), with ENABLED
\* <<TickRecv>>_vars written out as TickRecvEnabled.
ConsumerRuns == ([]<>(~TickRecvEnabled)) \/ ([]<><<TickRecv>>_vars)

\* Both threads keep running: the ticker sends again after each sleep, and the
\* consumer handles an event whenever one is in the channel.
SpecTicks ==
    /\ InitTicks
    /\ [][TickerRun \/ TickRecv]_vars
    /\ WF_vars(TickerRun)
    /\ ConsumerRuns

\* ------------------------------------------------------------------- replay
\* The plays that lead from Game::new to the games in play of StartGames, key by
\* key through keypress, every shuffle putting the same piece first.
Repeat(key, n) == [i \in 1..n |-> key]

\* An I piece stood up in column 9.
StandInColumn9 == <<"Up">> \o Repeat("Right", 5) \o <<"Space">>

\* k times: an I piece laid in columns 0-3, then one in columns 5-8.
RECURSIVE Layers(_)
Layers(k) ==
    IF k = 0 THEN << >>
    ELSE Repeat("Left", 3) \o <<"Space">> \o Repeat("Right", 2) \o <<"Space">>
         \o Layers(k - 1)

\* An I piece stood up and dropped into the well of column 4.
FillWell == <<"Up", "Space">>

\* n times the keys of `keys`.
RECURSIVE Times(_, _)
Times(keys, n) == IF n = 0 THEN << >> ELSE keys \o Times(keys, n - 1)

\* Nine O pieces dropped on columns 1-2, nine on 3-4, nine on 5-6, nine on
\* 7-8; then one O piece each moved along rows 0-1 onto columns 0-1, 2-3, 8-9
\* and 6-7, where it rests on a stack and Space locks it.
FillToBrim ==
    Times(Repeat("Left", 3) \o <<"Space">>, 9) \o Times(<<"Left", "Space">>, 9)
    \o Times(<<"Right", "Space">>, 9) \o Times(Repeat("Right", 3) \o <<"Space">>, 9)
    \o Repeat("Left", 4) \o <<"Space">> \o Repeat("Left", 2) \o <<"Space">>
    \o Repeat("Right", 4) \o <<"Space">> \o Repeat("Right", 2) \o <<"Space">>

\* The plays, each with the shuffle all its fill_bag calls draw and the game
\* it ends in.
Replays ==
    { [keys |-> StandInColumn9 \o Layers(k), indices |-> Ordering(0),
       goal |-> [Game_new(Ordering(0), Ordering(0)) EXCEPT !.board = WellBoard(k)]] :
        k \in 1..4 }
    \cup { [keys |-> StandInColumn9 \o Layers(4) \o FillWell \o StandInColumn9 \o Layers(k),
            indices |-> Ordering(0),
            goal |-> [Game_new(Ordering(0), Ordering(0)) EXCEPT
                          !.board = WellBoard(k), !.score = ScoreAward(4),
                          !.total_lines = 4, !.level = 1]] :
             k \in 1..4 }
    \cup { [keys |-> Repeat("Space", 9), indices |-> Ordering(2),
            goal |-> [Game_new(Ordering(2), Ordering(2)) EXCEPT !.board = StackBoard]],
           [keys |-> FillToBrim, indices |-> Ordering(2),
            goal |-> [Game_new(Ordering(2), Ordering(2)) EXCEPT !.board = BrimBoard]] }

InitReplay ==
    /\ chan = << >>
    /\ pc = "recv"
    /\ last = [op |-> "new", ret |-> FALSE]
    /\ nsent = 0
    /\ \E play \in Replays :
          /\ game = Game_new(play.indices, play.indices)
          /\ probe = [kind |-> "replay", keys |-> play.keys, indices |-> play.indices,
                      goal |-> play.goal]

\* The next key of the play is handled by keypress.
ReplayKey ==
    /\ probe.kind = "replay"
    /\ probe.keys # << >>
    /\ game' = keypress(game, Head(probe.keys), probe.indices, probe.indices).game
    /\ probe' = [probe EXCEPT !.keys = Tail(probe.keys)]
    /\ UNCHANGED <<chan, pc, last, nsent>>

SpecReplay == InitReplay /\ [][ReplayKey]_vars

\* Every play ends in its game, and that game is one play starts from.
ReplayReachesStart ==
    (probe.kind = "replay" /\ probe.keys = << >>) =>
        (game = probe.goal /\ game \in StartGames)

\* ------------------------------------------------------------------- claims
\* The occupied (row, col) offsets of a piece, as a set.
Occupied(piece) ==
    { rc \in (DOMAIN piece.shape) \X (DOMAIN piece.shape) : piece.shape[rc[1]][rc[2]] # 0 }

\* Some occupied offset of the piece at `origin` is outside the grid or on an
\* occupied cell.
Hits(cells, piece, origin) ==
    \E rc \in Occupied(piece) :
        LET x == origin.x + rc[2]
            y == origin.y + rc[1]
        IN  \/ x \notin 0..(BOARD_WIDTH - 1)
            \/ y \notin 0..(BOARD_HEIGHT - 1)
            \/ cells[y][x] # None

\* The step is the consumer receiving the oldest event of the channel.
RecvStep == pc = "recv" /\ chan # << >> /\ chan' = Tail(chan) /\ nsent' = nsent

\* The event being received invokes advance_game in an active game.
AdvanceEvents == {Tick, KeyPress("Down"), KeyPress("Space")}

\* C1: while the program runs and game_over is false, every occupied cell of
\* the active piece at piece_position lies inside the grid and on an empty cell
\* of the board.
C1_ActivePieceLegal ==
    (pc # "aborted" /\ ~game.game_over) =>
        \A rc \in Occupied(game.piece) :
            LET x == game.piece_position.x + rc[2]
                y == game.piece_position.y + rc[1]
            IN  /\ x \in 0..(BOARD_WIDTH - 1)
                /\ y \in 0..(BOARD_HEIGHT - 1)
                /\ game.board[y][x] = None

\* A line was cleared and the next piece stands at its spawn origin, the game
\* still active.
C1_Witness ==
    /\ ~game.game_over
    /\ pc = "recv"
    /\ game.score = 40
    /\ game.piece_position = Point((BOARD_WIDTH - ShapeLen(game.piece.shape)) \div 2, 0)

\* C2: an advance_game call sets game_over and returns false exactly when the
\* piece could not move down and the piece popped next collides at its spawn
\* origin on the board left by the lock and the clear; otherwise it returns true
\* and game_over stays false; no other step changes game_over.
C2_Step ==
    IF RecvStep /\ ~game.game_over /\ Head(chan) \in AdvanceEvents /\ pc' # "aborted"
    THEN LET below == Point(game.piece_position.x, game.piece_position.y + 1)
             landed == \/ Head(chan) = KeyPress("Space")
                       \/ Hits(game.board, game.piece, below)
             origin == Point((BOARD_WIDTH - ShapeLen(game'.piece.shape)) \div 2, 0)
             lost == landed /\ Hits(game'.board, game'.piece, origin)
         IN  /\ game'.game_over = lost
             /\ last'.ret = ~lost
    ELSE game'.game_over = game.game_over

C2_GameOverOnlyInAdvance == [][C2_Step]_vars

\* A Tick locked the piece and the next piece could not be placed.
C2_Witness ==
    /\ game.game_over
    /\ last = [op |-> "advance_game", ret |-> FALSE]

\* C3: in the over state, receiving KeyPress('r') replaces the Game by a fresh
\* one: empty board, score 0, level 0, total_lines 0, game_over false.
C3_Step ==
    (RecvStep /\ game.game_over /\ Head(chan) = KeyPress("Char_r")) =>
        /\ game'.board = EmptyCells
        /\ game'.score = 0
        /\ game'.level = 0
        /\ game'.total_lines = 0
        /\ ~game'.game_over

C3_RestartRecreatesGame == [][C3_Step]_vars

\* C4: in the over state, receiving KeyPress(Ctrl-C) or KeyPress('z') makes
\* the loop of play terminate.
C4_Step ==
    (RecvStep /\ game.game_over
       /\ Head(chan) \in {KeyPress("CtrlC"), KeyPress("Char_z")}) =>
        pc' = "exited"

C4_QuitLeavesLoop == [][C4_Step]_vars

\* C5: once game_over is true, every step other than the receipt of a restart
\* or quit key leaves the whole Game unchanged, game_over included.
C5_Step ==
    (game.game_over
       /\ ~(RecvStep /\ Head(chan) \in {KeyPress("Char_r"), KeyPress("CtrlC"),
                                         KeyPress("Char_z")})) =>
        /\ game' = game
        /\ game'.game_over

C5_OverStateFrozen == [][C5_Step]_vars

\* Both events of the behaviour were received, the first one ending the game:
\* the second was handled in the over state, by no operation.
C5_Witness ==
    /\ game.game_over
    /\ nsent = 2
    /\ chan = << >>
    /\ last.op = "none"

\* C6: the pops numbered 7k+1 .. 7k+7 of a bag return each of the seven
\* variants exactly once: no two pops of one such group return the same piece.
C6_SevenBag ==
    probe.kind = "bag" =>
        \A i, j \in 1..Len(probe.popped) :
            (i < j /\ (i - 1) \div BAG_SIZE = (j - 1) \div BAG_SIZE) =>
                probe.popped[i] # probe.popped[j]

\* C7: after PieceBag::new and after any number of pops, slot 0 of the bag
\* holds a piece (so peek does not panic and pop does not take its empty-front
\* branch).
C7_FrontSlotFilled ==
    probe.kind = "bag" => probe.pieces[0] # NoPiece

\* Seven pops were made, as many as the bag has slots, and slot 0 holds a piece.
C7_Witness ==
    /\ probe.kind = "bag"
    /\ Len(probe.popped) = BAG_SIZE
    /\ probe.pieces[0] # NoPiece

\* The complete rows of a board.
FullRows(cells) ==
    { r \in 0..(BOARD_HEIGHT - 1) : \A c \in 0..(BOARD_WIDTH - 1) : cells[r][c] # None }

\* The board without its rows `full`: every other row moves down by the
\* number of rows of `full` below it, and as many empty rows come in at the top.
PackedWithout(cells, full) ==
    [r \in 0..(BOARD_HEIGHT - 1) |->
        IF r < Cardinality(full) THEN EmptyRow
        ELSE cells[CHOOSE q \in (0..(BOARD_HEIGHT - 1)) \ full :
                      q + Cardinality({ f \in full : f > q }) = r]]

\* The board with its k complete rows removed: the other rows in their order,
\* packed against the bottom under k empty rows.
Packed(cells) == PackedWithout(cells, FullRows(cells))

\* C8: on every board clear_lines completes without aborting, returns the
\* number k of complete rows, and leaves the other rows in their order packed
\* against the bottom with the top k rows empty.
C8_ClearLinesPacks ==
    (probe.kind = "clear" /\ probe.done) =>
        /\ ~probe.panic
        /\ probe.ret = Cardinality(FullRows(probe.cells))
        /\ probe.after = Packed(probe.cells)

\* The number of occupied cells of a board.
Filled(cells) ==
    Cardinality({ rc \in (0..(BOARD_HEIGHT - 1)) \X (0..(BOARD_WIDTH - 1)) :
                    cells[rc[1]][rc[2]] # None })

\* The number of lines a step cleared: a lock adds the four cells of the piece
\* and each cleared line removes BOARD_WIDTH cells.
LinesClearedInStep ==
    IF game'.board = game.board THEN 0
    ELSE (Filled(game.board) + 4 - Filled(game'.board)) \div BOARD_WIDTH

\* C9: a step whose call returns and that clears 1, 2, 3 or 4 lines adds
\* exactly 40, 100, 300 or 1200 to score, whatever the level; every other such
\* step leaves score unchanged.
C9_Step ==
    pc' # "aborted" =>
        LET k == LinesClearedInStep
        IN  /\ k \in 0..4
            /\ game'.score = game.score + (CASE k = 0 -> 0
                                             [] k = 1 -> 40
                                             [] k = 2 -> 100
                                             [] k = 3 -> 300
                                             [] k = 4 -> 1200)

C9_ScoreTable == [][C9_Step]_vars

\* Three lines were cleared in a game that had cleared four lines before.
C9_Witness ==
    /\ game.score = 1500
    /\ game.total_lines = 7

\* C10: collision_test returns true if and only if some occupied offset
\* (row, col) of the piece maps to (origin.x + col, origin.y + row) outside the
\* grid or onto an occupied cell.
C10_CollisionIff ==
    (probe.kind = "collision" /\ probe.done) =>
        probe.found = Hits(probe.cells, probe.piece, probe.origin)

\* A piece whose origin is left of the grid and which does not collide: its
\* occupied cells are all inside.
C10_Witness ==
    /\ probe.kind = "collision"
    /\ probe.done
    /\ ~probe.found
    /\ probe.origin.x < 0
    /\ probe.cells # EmptyCells

\* A quarter turn of a square matrix, cell by cell: turned to the left, cell
\* (r, c) takes the value of cell (c, size-1-r); to the right, of (size-1-c, r).
Turned(shape, direction) ==
    LET size == Cardinality(DOMAIN shape)
    IN  [r \in DOMAIN shape |->
            [c \in DOMAIN shape |->
                IF direction = "Left" THEN shape[c][size - 1 - r]
                ELSE shape[size - 1 - c][r]]]

\* The step is one call of `op` on a game in play.
CallStep(op) == probe.kind = "call" /\ ~probe.done /\ probe'.done /\ probe'.op = op

\* C11: move_piece(dx, dy) returns false exactly when the piece at the origin
\* moved by (dx, dy) collides, rotate_piece(direction) exactly when the piece
\* turned a quarter in that direction collides at the unchanged origin; a call
\* that returns false leaves the whole Game unchanged, one that returns true
\* changes piece_position only (move) or the orientation of the piece only
\* (rotate).
C11_Step ==
    /\ CallStep("move_piece") =>
          LET candidate == Point(game.piece_position.x + probe'.arg.x,
                                 game.piece_position.y + probe'.arg.y)
          IN  /\ probe'.ret = ~Hits(game.board, game.piece, candidate)
              /\ game' = IF probe'.ret
                         THEN [game EXCEPT !.piece_position = candidate]
                         ELSE game
    /\ CallStep("rotate_piece") =>
          LET candidate == [color |-> game.piece.color,
                            shape |-> Turned(game.piece.shape, probe'.arg)]
          IN  /\ probe'.ret = ~Hits(game.board, candidate, game.piece_position)
              /\ game' = IF probe'.ret
                         THEN [game EXCEPT !.piece = candidate]
                         ELSE game

C11_MoveRotateContract == [][C11_Step]_vars

\* A rotation was refused beside the stack of StackBoard: the turned piece
\* would overlap locked cells, inside the grid.
C11_Witness ==
    /\ probe.kind = "call"
    /\ probe.done
    /\ probe.op = "rotate_piece"
    /\ ~probe.ret
    /\ game.board = StackBoard
    /\ game.piece_position.x \in 2..3
    /\ game.piece_position.y \in 4..10

\* C12: rotating a piece four times in the same direction gives back the
\* occupancy matrix it started from, and every rotate keeps the dimension of
\* the matrix and the number of its occupied cells.
C12_RotateRoundTrip ==
    probe.kind = "rotate" =>
        /\ probe.turns % 4 = 0 => probe.piece.shape = probe.start.shape
        /\ DOMAIN probe.piece.shape = DOMAIN probe.start.shape
        /\ \A r \in DOMAIN probe.piece.shape :
               DOMAIN probe.piece.shape[r] = DOMAIN probe.start.shape
        /\ Cardinality(Occupied(probe.piece)) = Cardinality(Occupied(probe.start))

\* The S piece as constructed was rotated four times to the left.
C12_Witness ==
    /\ probe.kind = "rotate"
    /\ probe.turns = 4
    /\ probe.start = new_s
    /\ probe.direction = "Left"

\* C13: in a fresh game, when move_piece(-1, 0) has been repeated until it
\* returned false, the piece is at x = 0, in the row and the orientation it was
\* spawned in, over the empty board.
C13_LeftWallReached ==
    (probe.kind = "drive" /\ probe.mode = "left" /\ probe.stopped) =>
        /\ game.piece_position.x = 0
        /\ game.piece_position.y = probe.spawn.y
        /\ game.piece = probe.first
        /\ game.board = EmptyCells

\* The I piece, spawned at x = 3, was moved left three times and the fourth
\* call returned false.
C13_Witness ==
    /\ probe.kind = "drive"
    /\ probe.mode = "left"
    /\ probe.stopped
    /\ probe.first = new_i
    /\ probe.calls = 4

\* The cells of a board after the piece at `origin` was written into it.
LockedAt(cells, piece, origin) ==
    [r \in 0..(BOARD_HEIGHT - 1) |->
        [c \in 0..(BOARD_WIDTH - 1) |->
            IF <<r - origin.y, c - origin.x>> \in Occupied(piece)
            THEN piece.color ELSE cells[r][c]]]

\* The step is one advance_game call on a game driven by such calls only.
AdvanceOnlyStep ==
    probe.kind = "drive" /\ probe.mode = "advance" /\ probe'.calls = probe.calls + 1

\* In a game driven by advance_game only: the piece is in the column it was
\* spawned in and no line was cleared; an O piece spawned first leaves the
\* board empty for 18 calls and the 19th locks it into rows 18-19, columns 4-5.
C14_State ==
    (probe.kind = "drive" /\ probe.mode = "advance") =>
        /\ game.piece_position.x = (BOARD_WIDTH - ShapeLen(game.piece.shape)) \div 2
        /\ game.total_lines = 0
        /\ probe.first = new_o =>
              /\ probe.spawn = Point(4, 0)
              /\ probe.calls < 19 =>
                    /\ game.board = EmptyCells
                    /\ game.piece_position = Point(4, probe.calls)
              /\ probe.calls = 19 =>
                    game.board = LockedAt(EmptyCells, new_o, Point(4, 18))
              /\ probe.calls >= 19 =>
                    \A r \in 18..19, c \in 4..5 : game.board[r][c] # None

\* Each such call either moves the piece down one row, nothing else changing,
\* or, when the origin one row lower collides, writes the piece into the board
\* at the collision-free origin it has.
C14_Step ==
    AdvanceOnlyStep =>
        LET below == Point(game.piece_position.x, game.piece_position.y + 1)
        IN  IF ~Hits(game.board, game.piece, below)
            THEN game' = [game EXCEPT !.piece_position = below]
            ELSE /\ ~Hits(game.board, game.piece, game.piece_position)
                 /\ game'.board = LockedAt(game.board, game.piece, game.piece_position)

\* C14: a fresh game driven by advance_game calls only keeps the piece in its
\* spawn column, moves it down one row per call until the origin below
\* collides, then locks it where it is (an O piece into rows 18-19, columns
\* 4-5, on the 19th call), and total_lines stays 0.
C14_AdvanceOnlyDrop == []C14_State /\ [][C14_Step]_vars

\* The O piece spawned first was locked by the 19th call, the board holding
\* its four cells only.
C14_Witness ==
    /\ probe.kind = "drive"
    /\ probe.mode = "advance"
    /\ probe.first = new_o
    /\ probe.calls = 19
    /\ Filled(game.board) = 4
    /\ game.piece_position.y = 0

\* C15: the program never aborts: lock_piece is only called with a piece
\* that does not collide at its origin, and clear_lines never computes a row
\* index below 0, whatever board play has reached.
C15_NoGridAbort == pc # "aborted"

\* C16: level goes up once per 10 lines cleared: a step raises level by one
\* exactly when total_lines reaches or passes the next multiple of 10 in it,
\* and no other step changes level (so that level = total_lines div 10 all
\* along a game started by Game::new, and level is 0 while total_lines < 10).
C16_Step ==
    game'.level = game.level
                  + (IF game'.total_lines \div 10 > game.total_lines \div 10 THEN 1 ELSE 0)

C16_LevelPerTenLines == [][C16_Step]_vars

\* The origin the piece of game g comes to rest at when it goes straight down:
\* the first origin from piece_position downwards under which it collides.
RestOrigin(g) ==
    LET x == g.piece_position.x
        rests == { y \in g.piece_position.y..(BOARD_HEIGHT - 1) :
                     Hits(g.board, g.piece, Point(x, y + 1)) }
    IN  Point(x, CHOOSE y \in rests : \A q \in rests : y <= q)

\* advance_game repeated until the call that finds the piece unable to move
\* down, which locks it; the result of that call.
RECURSIVE AdvanceUntilLocked(_, _)
AdvanceUntilLocked(g, refill) ==
    LET r == advance_game(g, refill, refill)
        below == Point(g.piece_position.x, g.piece_position.y + 1)
    IN  IF Hits(g.board, g.piece, below) THEN r
        ELSE AdvanceUntilLocked(r.game, refill)

\* C17: in an active state find_dropped_position returns an origin in the
\* column of piece_position, not above it, where the piece does not collide
\* and under which it does, and leaves the Game as it is; drop_piece writes
\* the piece into the board at that origin, then clears the complete lines
\* and spawns the next piece: the game it leaves and the value it returns are
\* those of advance_game repeated until the piece locks.
C17_Step ==
    /\ CallStep("find_dropped_position") =>
          /\ probe'.ret.x = game.piece_position.x
          /\ probe'.ret.y >= game.piece_position.y
          /\ ~Hits(game.board, game.piece, probe'.ret)
          /\ Hits(game.board, game.piece, Point(probe'.ret.x, probe'.ret.y + 1))
          /\ probe'.ret = RestOrigin(game)
          /\ game' = game
    /\ CallStep("drop_piece") =>
          /\ ~probe'.panic
          /\ game'.board = Packed(LockedAt(game.board, game.piece, RestOrigin(game)))
          /\ \E u \in {AdvanceUntilLocked(game, probe'.refill)} :
                game' = u.game /\ probe'.ret = u.ret

C17_DropIsGhostLock == [][C17_Step]_vars

\* An I piece stood up over the well of WellBoard(4) was dropped from the top
\* rows and cleared four lines.
C17_Witness ==
    /\ probe.kind = "call"
    /\ probe.done
    /\ probe.op = "drop_piece"
    /\ probe.from.board = WellBoard(4)
    /\ probe.from.piece_position.y < 4
    /\ game.total_lines = 4
    /\ game.board # probe.from.board

\* The updates handled so far, in the order they were handled.
HandledUpdates == [i \in 1..Len(probe.handled) |-> probe.handled[i].update]

\* The updates sent are, in the order of their send calls, those the loop has
\* handled followed by those waiting in the channel: none lost, none handled
\* twice, none overtaken.
C18_Order == probe.kind = "channel" => probe.sent = HandledUpdates \o chan

\* A step handles at most one update, and only a step that handles one changes
\* the Game.
C18_OneAtATime ==
    probe.kind = "channel" =>
        /\ Len(probe'.handled) \in {Len(probe.handled), Len(probe.handled) + 1}
        /\ game' # game => Len(probe'.handled) = Len(probe.handled) + 1

\* C18, as stated: in the active state every Tick handled is given to
\* advance_game and every KeyPress handled to keypress.
C18_Step ==
    /\ C18_OneAtATime
    /\ (probe.kind = "channel" /\ ~game.game_over
          /\ Len(probe'.handled) = Len(probe.handled) + 1) =>
          LET h == probe'.handled[Len(probe'.handled)]
          IN  /\ h.update.type = "Tick" => h.op = "advance_game"
              /\ h.update.type = "KeyPress" => h.op = "keypress"

C18_EveryEventDispatched == []C18_Order /\ [][C18_Step]_vars

\* C18, amended: in the active state every Tick handled is given to
\* advance_game and every KeyPress handled to keypress, except KeyPress(Ctrl-C)
\* and KeyPress('z'), which the loop consumes without calling keypress and
\* without changing the Game.
C18_AmendedStep ==
    /\ C18_OneAtATime
    /\ (probe.kind = "channel" /\ ~game.game_over
          /\ Len(probe'.handled) = Len(probe.handled) + 1) =>
          LET h == probe'.handled[Len(probe'.handled)]
          IN  /\ h.update.type = "Tick" => h.op = "advance_game"
              /\ h.update.type = "KeyPress" =>
                    IF h.update.key \in {"CtrlC", "Char_z"}
                    THEN h.op = "none" /\ game' = game
                    ELSE h.op = "keypress"

C18_EventsInOrderOnce == []C18_Order /\ [][C18_AmendedStep]_vars

\* A key press and a Tick were sent and both handled, in that order, the key
\* by keypress and the Tick by advance_game.
C18_Witness ==
    /\ probe.kind = "channel"
    /\ chan = << >>
    /\ Len(probe.handled) = 2
    /\ probe.handled[1] = [update |-> KeyPress("Left"), op |-> "keypress"]
    /\ probe.handled[2] = [update |-> Tick, op |-> "advance_game"]

\* C19: whenever the loop waits for an event (every advance_game and
\* drop_piece call made so far has returned), every row of the board has at
\* least one empty cell.
C19_NoCompleteRow ==
    pc # "aborted" =>
        \A r \in 0..(BOARD_HEIGHT - 1) : \E c \in 0..(BOARD_WIDTH - 1) :
            game.board[r][c] = None

\* Three lines were cleared by one drop and rows of the board still hold
\* locked cells.
C19_Witness ==
    /\ pc = "recv"
    /\ game.total_lines = 3
    /\ game.score = 300
    /\ Filled(game.board) > 0
    /\ FullRows(game.board) = {}

\* C20: a step adds at most 4 to total_lines, as many as it cleared lines; a
\* step that adds to total_lines adds to score; no step lowers score,
\* total_lines or level.
C20_Step ==
    LET lines == game'.total_lines - game.total_lines
    IN  /\ lines \in 0..4
        /\ pc' # "aborted" => lines = LinesClearedInStep
        /\ lines > 0 => game'.score > game.score
        /\ game'.score >= game.score
        /\ game'.level >= game.level

C20_AtMostFourLines == [][C20_Step]_vars

\* One line was cleared in a game that had cleared four lines at once before.
C20_Witness ==
    /\ game.total_lines = 5
    /\ game.score = 1240
    /\ game.level = 1

\* C21: the preview is truthful. A call of peek leaves every slot of the bag
\* as it was and returns a piece; the pop that immediately follows a peek
\* returns the very piece (variant and orientation) that peek returned.
C21_Step ==
    probe.kind = "bag" =>
        /\ probe'.peeked # NoPiece =>
              /\ probe'.pieces = probe.pieces
              /\ probe'.popped = probe.popped
              /\ pc' = "recv"
        /\ probe'.shown # NoPiece =>
              /\ probe.peeked = probe'.shown
              /\ Len(probe'.popped) = Len(probe.popped) + 1
              /\ probe'.popped[Len(probe'.popped)] = probe'.shown[1]

C21_PreviewTruthful == [][C21_Step]_vars

\* The third pop came right after a peek, and the two pops before it returned
\* other pieces than the one this peek showed.
C21_Witness ==
    /\ probe.kind = "bag"
    /\ Len(probe.popped) = 3
    /\ probe.shown # NoPiece
    /\ probe.popped[3] = probe.shown[1]
    /\ probe.popped[1] # probe.popped[3]
    /\ probe.popped[2] # probe.popped[3]

\* C22: in a run of play from a fresh game in which only Tick events arrive,
\* whatever the bag yields, game_over becomes true at some point; and at every
\* moment of the run the program is alive, score, total_lines and level are 0,
\* and no step clears a line (no row was completed by the piece locked).
C22_State ==
    probe.kind = "ticks" =>
        /\ pc = "recv"
        /\ game.score = 0
        /\ game.total_lines = 0
        /\ game.level = 0
        /\ FullRows(game.board) = {}

C22_Step == probe.kind = "ticks" => LinesClearedInStep = 0

C22_TicksOnlyEndGame ==
    /\ <>(game.game_over)
    /\ []C22_State
    /\ [][C22_Step]_vars

\* The game is over after a run of ticks in which every free shuffle was
\* drawn and pieces of two colours were locked, with nothing scored; a
\* further tick is waiting in the channel.
C22_Witness ==
    /\ probe.kind = "ticks"
    /\ game.game_over
    /\ probe.draws = MaxVaried
    /\ game.score = 0 /\ game.total_lines = 0 /\ game.level = 0
    /\ Filled(game.board) >= 40
    /\ Cardinality({game.board[r][c] : r \in 0..(BOARD_HEIGHT - 1), c \in 3..6} \ {None}) >= 2
    /\ chan # << >>

====
